---- MODULE Spec2Model ----
(***************************************************************************)
(* Model of the inventory reconciliation core of quent-dev/inventory-system *)
(*                                                                         *)
(*   - InventoryEngine (src/src/inventory_engine.py): the three catalogs,  *)
(*     load_data and the effective-inventory computation;                  *)
(*   - ShopifyClient._get_recent_sales_fallback (src/src/shopify_client.py)*)
(*     the cached, paginated sweep over the order history, and             *)
(*     clear_sales_cache;                                                  *)
(*   - ShopifyClient._make_request: the retry after a 429 answer;          *)
(*   - Product (src/src/models.py): the forecast figures of a product.     *)
(*                                                                         *)
(* Quantities per kit are Python floats in the source.  The model keeps    *)
(* them as exact multiples of one half (the field `halves`), for which     *)
(* float division of a stock count is exact.                               *)
(***************************************************************************)
EXTENDS Integers, Sequences, FiniteSets, TLC

VARIABLES
    \* ---- external sources read by load_data (the environment) ----
    shopStock,        \* Shopify: SKU -> inventory_quantity of the active variants
    sheetKits,        \* sheet "Kit Master": the rows, in sheet order
    sheetRows,        \* sheet "Component Mapping": the rows, in sheet order
    sheetRules,       \* sheet "Business Rules": component SKU -> Minimum Buffer Stock
    \* ---- InventoryEngine ----
    products,         \* self.products: SKU -> Product
    kits,             \* self.kits: insertion-ordered dict, as a sequence of Kit
    business_rules,   \* self.business_rules: SKU -> BusinessRule
    results,          \* the list returned by the last calculate_effective_inventory
    raised,           \* the exception the last call raised, "" when it returned
    lastOp,           \* the engine operation that ran last
    lastArg,          \* the kit_sku argument of the last calculate_effective_inventory
    issues,           \* the list returned by the last validate_data_consistency
    loadReturned,     \* << >>, or <<what the last load_data returned>>
    \* ---- the order source and the clock (the environment) ----
    shopOrders,       \* the shop's orders, newest first
    sourceFilters,    \* TRUE when the source applies created_at_min
    now,              \* the clock, in hours
    \* ---- ShopifyClient._get_recent_sales_fallback ----
    cache,            \* the file sales_velocity_cache_<store_id>.json: << >> or <<file>>
    pc,               \* "idle", or "sweep" while the while-loop of line 241 runs
    start_date,       \* start_date of the running call
    created_at_max,   \* params['created_at_max']: << >> when unset, else <<t>>
    sales_by_sku,     \* sales_by_sku of the running call
    total_orders_processed,
    returned,         \* the mapping the last call returned
    \* ---- history of the last call, kept for the properties ----
    callDays,         \* its argument days
    callTime,         \* the clock when it was made
    callRequests,     \* the page requests it has issued
    cacheHit,         \* TRUE when it was answered from the cache
    cacheBefore,      \* the cache file as the call found it
    endReason,        \* why its sweep ended, "" while it runs
    lastPage,         \* the last page it received
    oldSeen,          \* TRUE when a page it received held an order older than start_date
    written,          \* the mapping the last sweep wrote to the cache file
    writtenDays,      \* the argument days of the call whose sweep wrote it, 0 when none
    \* ---- ShopifyClient._make_request ----
    reqPc,            \* "idle", "waiting" for the answer to a GET, "done"
    reqCall,          \* <<endpoint, params>> the caller passed
    reqSent,          \* the GETs issued for the call, each <<endpoint, params>>
    reqSlept,         \* the arguments of the time.sleep calls of the call, in order
    reqAnswers,       \* the answers the source gave, in order
    reqResult,        \* what the caller received: << >> until then, else <<value>>
    reqRaised,        \* the exception that left _make_request, "" when none
    \* ---- the cache file's disk, and the history of clear_sales_cache ----
    disk,             \* "ok", "denied" (open for writing fails), "full" (the dump fails)
    clearPending,     \* << >>, or <<what the last clear_sales_cache found and returned>>
                      \* until the next call of the aggregator
    callCleared,      \* clearPending as the last call of the aggregator found it
    callRaised,       \* the exception that left the last call, "" when it returned
    \* ---- one Product and the forecast figures read from it ----
    product,          \* a Product
    productBuffer,    \* << >>, or <<product.recommended_buffer>> once it was read
    productDays,      \* << >>, or <<product.days_of_stock>> once it was read
    \* ---- the list objects of calculate_effective_inventory ----
    heap,             \* the list objects still referenced: identity -> contents
    resultRef,        \* identity of the list the last call returned, 0 when none
    viewRef,          \* identity of the list a caller has kept, 0 when none
    viewSeen,         \* the contents of the kept list when the caller took it
    viewArg           \* the kit_sku argument of the call that returned the kept list

engineVars == <<products, kits, business_rules, results, raised, lastOp, lastArg,
                issues, loadReturned>>
sourceVars == <<shopStock, sheetKits, sheetRows, sheetRules>>
orderVars  == <<shopOrders, sourceFilters>>
clientVars == <<cache, pc, start_date, created_at_max, sales_by_sku,
                total_orders_processed, returned>>
callVars   == <<callDays, callTime, callRequests, cacheHit, cacheBefore, endReason,
                lastPage, oldSeen, written, writtenDays>>
requestVars == <<reqPc, reqCall, reqSent, reqSlept, reqAnswers, reqResult, reqRaised>>
cacheVars  == <<disk, clearPending, callCleared, callRaised>>
productVars == <<product, productBuffer, productDays>>
viewVars   == <<heap, resultRef, viewRef, viewSeen, viewArg>>

vars == <<sourceVars, engineVars, orderVars, now, clientVars, callVars, requestVars,
          cacheVars, productVars, viewVars>>

\* ------------------------------------------------------------------------
\* Bounds of the model
\* ------------------------------------------------------------------------
MaxComponents == 2                    \* rows of the component-mapping sheet

Skus      == {"A", "B"}               \* component SKUs
KitSkus   == {"K1"}                   \* kit SKUs of the sheet
UnknownKit == "K9"                    \* a kit SKU no sheet row has
StockVals == {-1, 3, 12}              \* inventory_quantity values (Shopify allows < 0)
BufferVals == {5}                     \* Minimum Buffer Stock values
NoneVal   == "None"                   \* Python None
Inf       == << >>                    \* min_possible = float('inf')
Fin(v)    == << v >>                  \* min_possible = a finite number v

\* Cells of the column "Quantity per Kit" as get_all_records hands them over:
\* a number (in halves) or a text.
QtyCells ==
    { [kind |-> "num",  halves |-> 1,  text |-> ""],      \* 0.5
      [kind |-> "num",  halves |-> 4,  text |-> ""],      \* 2
      [kind |-> "num",  halves |-> -2, text |-> ""],      \* -1
      [kind |-> "text", halves |-> 0,  text |-> "abc"],   \* float() raises ValueError
      [kind |-> "text", halves |-> 0,  text |-> "0_0"] }  \* stays a text, float() gives 0.0

\* Display name of a component in the sheet; B's name cell is empty.
ComponentName(sku) == IF sku = "A" THEN "Alpha" ELSE ""
KitName(sku) == "Kit " \o sku

PartialFns(D, R) == UNION { [X -> R] : X \in SUBSET D }
SeqUpTo(S, n) == UNION { [1..k -> S] : k \in 0..n }

Min2(a, b) == IF a <= b THEN a ELSE b
Max2(a, b) == IF a >= b THEN a ELSE b

\* math.floor(n / d) for integers n, d with d # 0
Floor(n, d) == IF d > 0 THEN n \div d ELSE (0 - n) \div (0 - d)

\* ------------------------------------------------------------------------
\* models.py
\* ------------------------------------------------------------------------
\* Product.available_stock
available_stock(p) == Max2(0, p.current_stock - p.reserved_stock)

\* A float that is a quotient of two integers is kept as that quotient,
\* den > 0; Rate(0, 1) is the default 0.0 of daily_sales_velocity.
Rate(n, d) == [ num |-> n, den |-> d ]

BufferDays == 7                       \* line 34: the days of the recommended buffer

\* Product.days_of_stock (lines 21-26): None, or available / velocity
days_of_stock(p) ==
    IF p.daily_sales_velocity.num <= 0
    THEN NoneVal
    ELSE Rate(available_stock(p) * p.daily_sales_velocity.den, p.daily_sales_velocity.num)

\* Product.recommended_buffer (lines 28-34): int() cuts the fraction off
recommended_buffer(p) ==
    IF p.daily_sales_velocity.num <= 0
    THEN 0
    ELSE (p.daily_sales_velocity.num * BufferDays) \div p.daily_sales_velocity.den

\* ------------------------------------------------------------------------
\* sheets_client.py
\* ------------------------------------------------------------------------
\* float(text): the texts of the model that parse, and their value in halves
FloatParses(text) == text = "0_0"
FloatOf(text)     == 0

\* get_kit_components, the quantity of one row:
\*   quantity = float(qty_value) if qty_value else 1.0, ValueError -> 1.0
ParseQuantity(cell) ==
    IF cell.kind = "num"
    THEN IF cell.halves # 0 THEN cell.halves ELSE 2
    ELSE IF cell.text = "" THEN 2
         ELSE IF FloatParses(cell.text) THEN FloatOf(cell.text) ELSE 2

\* get_kit_components: the KitComponent of one row
RowComponent(row) ==
    [ kit_sku          |-> row.kit_sku,
      component_sku    |-> row.component_sku,
      component_name   |-> row.component_name,
      quantity_per_kit |-> ParseQuantity(row.qty),
      is_critical      |-> (row.critical = "Y") ]

RECURSIVE ComponentsOf(_, _)
\* get_kit_components: components_by_kit[kit_sku], in row order
ComponentsOf(rows, kit_sku) ==
    IF rows = <<>> THEN <<>>
    ELSE IF Head(rows).kit_sku = kit_sku
         THEN <<RowComponent(Head(rows))>> \o ComponentsOf(Tail(rows), kit_sku)
         ELSE ComponentsOf(Tail(rows), kit_sku)

RECURSIVE KitMasterData(_)
\* get_kit_master_data: one Kit per row, in row order, components empty
KitMasterData(rows) ==
    IF rows = <<>> THEN <<>>
    ELSE <<[ sku        |-> Head(rows).sku,
             name       |-> KitName(Head(rows).sku),
             components |-> <<>>,
             is_active  |-> (Head(rows).status = "Active") ]>>
         \o KitMasterData(Tail(rows))

\* get_business_rules
BusinessRules(rules) ==
    [ s \in DOMAIN rules |->
        [ component_sku |-> s, minimum_buffer_stock |-> rules[s] ] ]

\* ------------------------------------------------------------------------
\* shopify_client.py: get_products
\* ------------------------------------------------------------------------
GetProducts(stock) ==
    [ s \in DOMAIN stock |->
        [ sku |-> s, current_stock |-> stock[s], reserved_stock |-> 0,
          units_sold_30_days |-> 0, daily_sales_velocity |-> Rate(0, 1) ] ]

\* ------------------------------------------------------------------------
\* inventory_engine.py
\* ------------------------------------------------------------------------
\* dict lookup / store on the insertion-ordered dict self.kits
KitIndex(ks, sku) == { i \in 1..Len(ks) : ks[i].sku = sku }
HasKit(ks, sku)   == KitIndex(ks, sku) # {}
GetKit(ks, sku)   == ks[CHOOSE i \in KitIndex(ks, sku) : TRUE]
PutKit(ks, kit)   ==
    IF HasKit(ks, kit.sku)
    THEN [ i \in 1..Len(ks) |-> IF ks[i].sku = kit.sku THEN kit ELSE ks[i] ]
    ELSE Append(ks, kit)

RECURSIVE CombineKits(_, _, _)
\* load_data, lines 28-31: attach the components and store each kit
CombineKits(ks, kits_list, rows) ==
    IF kits_list = <<>> THEN ks
    ELSE LET kit   == Head(kits_list)
             comps == ComponentsOf(rows, kit.sku)
             kit2  == IF comps # <<>> THEN [kit EXCEPT !.components = comps] ELSE kit
         IN  CombineKits(PutKit(ks, kit2), Tail(kits_list), rows)

\* the availability of a component with its business rule left out
AdjustedNoBuffer(component, prods, rules) ==
    available_stock(prods[component.component_sku])

\* the adjusted availability of lines 81-87
Adjusted(component, prods, rules) ==
    LET available == available_stock(prods[component.component_sku])
    IN  IF component.component_sku \in DOMAIN rules
        THEN Max2(0, available - rules[component.component_sku].minimum_buffer_stock)
        ELSE available

\* line 90: math.floor(available / component.quantity_per_kit)
PossibleKits(available, quantity_per_kit) == Floor(2 * available, quantity_per_kit)

\* the comparison of line 92 with <= for <
IsNewMinimumOrEqual(possible_kits, min_possible) ==
    min_possible = Inf \/ possible_kits <= min_possible[1]

\* line 92: possible_kits < min_possible
IsNewMinimum(possible_kits, min_possible) ==
    min_possible = Inf \/ possible_kits < min_possible[1]

\* lines 96-101
StatusOf(min_possible) ==
    IF min_possible # Inf /\ min_possible[1] = 0 THEN "CRITICAL"
    ELSE IF min_possible # Inf /\ min_possible[1] <= 5 THEN "LOW"
    ELSE "OK"

\* the result of lines 96-109 for a kit whose loop ran over no component
NoComponentsFallThrough(kit) ==
    [ raised |-> "", kit_sku |-> kit.sku, kit_name |-> kit.name,
      max_kits_possible |-> 0, bottleneck_component |-> NoneVal, status |-> "OK" ]

\* lines 59-66
NoComponentsResult(kit) ==
    [ raised |-> "", kit_sku |-> kit.sku, kit_name |-> kit.name,
      max_kits_possible |-> 0,
      bottleneck_component |-> "No components defined",
      status |-> "CRITICAL" ]

\* lines 72-79
MissingResult(kit, component) ==
    [ raised |-> "", kit_sku |-> kit.sku, kit_name |-> kit.name,
      max_kits_possible |-> 0,
      bottleneck_component |-> "Missing component: " \o component.component_sku,
      status |-> "CRITICAL" ]

\* line 90 with quantity_per_kit = 0.0
DivisionError(kit) ==
    [ raised |-> "ZeroDivisionError", kit_sku |-> kit.sku, kit_name |-> kit.name,
      max_kits_possible |-> 0, bottleneck_component |-> NoneVal, status |-> "" ]

\* line 94 with the fall-back to the SKU left out
BottleneckNameOnly(component) == component.component_name

\* line 94: component.component_name or component.component_sku
BottleneckName(component) ==
    IF component.component_name # ""
    THEN component.component_name
    ELSE component.component_sku

\* line 71 as a loop over the critical components only
LoopCriticalComponents(kit) == SelectSeq(kit.components, LAMBDA c : c.is_critical)

\* line 71: for component in kit.components
LoopComponents(kit) == kit.components

RECURSIVE ComponentLoop(_, _, _, _, _, _)
\* the loop of lines 71-94 from component i on, and the return of lines 96-109
ComponentLoop(kit, i, min_possible, bottleneck, prods, rules) ==
    IF i > Len(LoopComponents(kit))
    THEN [ raised |-> "", kit_sku |-> kit.sku, kit_name |-> kit.name,
           max_kits_possible |-> IF min_possible # Inf THEN min_possible[1] ELSE 0,
           bottleneck_component |-> bottleneck,
           status |-> StatusOf(min_possible) ]
    ELSE LET component == LoopComponents(kit)[i]
         IN  IF component.component_sku \notin DOMAIN prods
             THEN MissingResult(kit, component)
             ELSE IF component.quantity_per_kit = 0
             THEN DivisionError(kit)
             ELSE LET possible_kits ==
                          PossibleKits(Adjusted(component, prods, rules),
                                       component.quantity_per_kit)
                      name == BottleneckName(component)
                  IN  IF IsNewMinimum(possible_kits, min_possible)
                      THEN ComponentLoop(kit, i + 1, Fin(possible_kits), name, prods, rules)
                      ELSE ComponentLoop(kit, i + 1, min_possible, bottleneck, prods, rules)

\* InventoryEngine._calculate_kit_inventory
CalculateKitInventory(kit, prods, rules) ==
    IF kit.components = <<>>
    THEN NoComponentsResult(kit)
    ELSE ComponentLoop(kit, 1, Inf, NoneVal, prods, rules)

\* models.py: the EffectiveInventory a returning call hands back
EffectiveInventory(r) ==
    [ kit_sku |-> r.kit_sku, kit_name |-> r.kit_name,
      max_kits_possible |-> r.max_kits_possible,
      bottleneck_component |-> r.bottleneck_component,
      status |-> r.status ]

\* the truth value of "if kit_sku:" (line 44): None and '' are false
Truthy(kit_sku) == kit_sku \notin {NoneVal, ""}

\* lines 44-47: the kits to process, in dict order
KitsToProcess(ks, kit_sku) ==
    IF Truthy(kit_sku)
    THEN IF HasKit(ks, kit_sku) THEN <<GetKit(ks, kit_sku)>> ELSE <<>>
    ELSE SelectSeq(ks, LAMBDA k : k.is_active)

\* lines 49-55: one result per kit to process
ResultList(todo, prods, rules) ==
    [ i \in 1..Len(todo) |-> CalculateKitInventory(todo[i], prods, rules) ]

\* the kits of line 146 when only the active ones are looked at
KitsToValidateActive(ks) == SelectSeq(ks, LAMBDA k : k.is_active)

\* line 146: self.kits.values(), every kit of the catalog in dict order
KitsToValidate(ks) == ks

\* the texts of lines 149 and 154
KitIssue(component_sku, kit_sku) ==
    "Component " \o component_sku \o " in kit " \o kit_sku \o " not found in Shopify"
RuleIssue(sku) == "Business rule exists for non-existent component: " \o sku

RECURSIVE ComponentIssues(_, _, _)
\* lines 147-149 for one kit: one text per component that is not a product
ComponentIssues(components, kit_sku, prods) ==
    IF components = << >> THEN << >>
    ELSE ( IF Head(components).component_sku \notin DOMAIN prods
           THEN << KitIssue(Head(components).component_sku, kit_sku) >>
           ELSE << >> )
         \o ComponentIssues(Tail(components), kit_sku, prods)

RECURSIVE KitIssues(_, _)
\* lines 146-149
KitIssues(ks, prods) ==
    IF ks = << >> THEN << >>
    ELSE ComponentIssues(Head(ks).components, Head(ks).sku, prods)
         \o KitIssues(Tail(ks), prods)

RECURSIVE RuleIssues(_, _)
\* lines 152-154; the rules are a function here, so the order of the keys
\* is a fixed but arbitrary one
RuleIssues(skus, prods) ==
    IF skus = {} THEN << >>
    ELSE LET sku == CHOOSE x \in skus : TRUE
         IN  ( IF sku \notin DOMAIN prods THEN << RuleIssue(sku) >> ELSE << >> )
             \o RuleIssues(skus \ {sku}, prods)

\* validate_data_consistency (lines 141-156)
DataIssues(ks, prods, rules) ==
    KitIssues(KitsToValidate(ks), prods) \o RuleIssues(DOMAIN rules, prods)

\* The list a call returns is an object with an identity; heap holds the
\* lists that are still referenced, by the caller of the last call or by a
\* caller that kept an earlier one.
ListIds == {1, 2}

\* the lists of h that one of the references in refs points to
Live(h, refs) == [ id \in DOMAIN h \cap refs |-> h[id] ]

\* the list with identity id gets the contents, the kept list stays
Store(h, id, contents, held) ==
    [ i \in {id} \cup (DOMAIN h \cap {held}) |-> IF i = id THEN contents ELSE h[i] ]

\* line 49 as a list the engine keeps and fills again on every call
AllocListShared(last, held) == IF last # 0 THEN last ELSE 1

\* line 49: results = [] is a new list, no other reference points to it
AllocList(last, held) == CHOOSE id \in ListIds : id # held

\* ------------------------------------------------------------------------
\* The engine as a state machine
\* ------------------------------------------------------------------------
SheetKitRows == [ sku : KitSkus, status : {"Active", "Inactive"} ]
SheetRows    == { [ kit_sku |-> k, component_sku |-> s,
                    component_name |-> ComponentName(s), qty |-> q,
                    critical |-> "Y" ] :
                  k \in KitSkus, s \in Skus, q \in QtyCells }

\* the kit-master sheet has at most one row for a kit SKU
OneRowPerKit(rows) == \A i, j \in 1..Len(rows) : rows[i].sku = rows[j].sku => i = j

InitSources ==
    /\ shopStock  \in PartialFns(Skus, StockVals)
    /\ sheetKits  \in { rows \in SeqUpTo(SheetKitRows, Cardinality(KitSkus)) :
                          OneRowPerKit(rows) }
    /\ sheetRows  \in SeqUpTo(SheetRows, MaxComponents)
    /\ sheetRules \in PartialFns(Skus, BufferVals)

\* InventoryEngine.__init__
InitEngine ==
    /\ products = << >>
    /\ kits = << >>
    /\ business_rules = << >>
    /\ results = << >>
    /\ raised = ""
    /\ lastOp = "init"
    /\ lastArg = NoneVal
    /\ issues = << >>
    /\ loadReturned = << >>
    /\ heap = << >>
    /\ resultRef = 0
    /\ viewRef = 0
    /\ viewSeen = << >>
    /\ viewArg = NoneVal

\* load_data with the except clause one statement late: get_products raises
\* after self.products was assigned
FailedLoadAfterProducts(prods, ks, rules, stock) ==
    [ products |-> GetProducts(stock), kits |-> ks, business_rules |-> rules ]

\* load_data, lines 18-20 and 38-40: get_products raises at line 20, before
\* the first assignment of line 21; the catalogs after the call
FailedLoad(prods, ks, rules, stock) ==
    [ products |-> prods, kits |-> ks, business_rules |-> rules ]

\* InventoryEngine.load_data; productsRaise: get_products raises (the
\* sheet client's methods catch their own errors and return [] or {})
load_data(productsRaise) ==
    /\ IF productsRaise
       THEN LET after == FailedLoad(products, kits, business_rules, shopStock)
            IN  /\ products' = after.products
                /\ kits' = after.kits
                /\ business_rules' = after.business_rules
                /\ loadReturned' = << FALSE >>
       ELSE /\ products' = GetProducts(shopStock)
            /\ kits' = CombineKits(kits, KitMasterData(sheetKits), sheetRows)
            /\ business_rules' = BusinessRules(sheetRules)
            /\ loadReturned' = << TRUE >>
    /\ lastOp' = "load_data"
    /\ UNCHANGED <<results, raised, lastArg, issues, sourceVars>>
    /\ UNCHANGED <<orderVars, now, clientVars, callVars>>
    /\ UNCHANGED <<requestVars, cacheVars, productVars, viewVars>>

\* load_data while the shop answers
LoadData == load_data(FALSE)

\* load_data, the shop answering or not
Reload == \E productsRaise \in BOOLEAN : load_data(productsRaise)

\* a call that drops the business rules of components that are no products
CatalogsAfterRepair(prods, ks, rules) ==
    [ products |-> prods, kits |-> ks,
      business_rules |-> [ s \in DOMAIN rules \cap DOMAIN prods |-> rules[s] ] ]

\* lines 42-109 and 141-156: calculate_effective_inventory and
\* validate_data_consistency assign to none of self.products, self.kits and
\* self.business_rules and change no object they hold; the catalogs after
\* such a call
CatalogsAfterRead(prods, ks, rules) ==
    [ products |-> prods, kits |-> ks, business_rules |-> rules ]

\* InventoryEngine.calculate_effective_inventory(kit_sku)
CalculateEffectiveInventory(kit_sku) ==
    LET list == ResultList(KitsToProcess(kits, kit_sku), products, business_rules)
        errs == { i \in 1..Len(list) : list[i].raised # "" }
        new  == AllocList(resultRef, viewRef)
    IN  /\ IF errs = {}
           THEN /\ results' = [ i \in 1..Len(list) |-> EffectiveInventory(list[i]) ]
                /\ raised' = ""
                /\ heap' = Store(heap, new, results', viewRef)
                /\ resultRef' = new
           ELSE /\ results' = << >>
                /\ raised' = "ZeroDivisionError"
                /\ heap' = Live(heap, {viewRef})
                /\ resultRef' = 0
        /\ lastOp' = "calculate_effective_inventory"
        /\ lastArg' = kit_sku
        /\ products' = CatalogsAfterRead(products, kits, business_rules).products
        /\ kits' = CatalogsAfterRead(products, kits, business_rules).kits
        /\ business_rules' = CatalogsAfterRead(products, kits, business_rules).business_rules
        /\ UNCHANGED <<issues, loadReturned, sourceVars>>
        /\ UNCHANGED <<orderVars, now, clientVars, callVars>>
        /\ UNCHANGED <<requestVars, cacheVars, productVars>>
        /\ UNCHANGED <<viewRef, viewSeen, viewArg>>

Calculate == \E kit_sku \in KitSkus \cup {UnknownKit, NoneVal} :
                 CalculateEffectiveInventory(kit_sku)

\* the caller keeps the list the last call returned (main.py line 134,
\* dashboard.py line 88)
KeepResults ==
    /\ resultRef # 0
    /\ viewRef # resultRef
    /\ viewRef' = resultRef
    /\ viewSeen' = heap[resultRef]
    /\ viewArg' = lastArg
    /\ heap' = Live(heap, {resultRef})
    /\ UNCHANGED <<resultRef, engineVars, sourceVars>>
    /\ UNCHANGED <<orderVars, now, clientVars, callVars>>
    /\ UNCHANGED <<requestVars, cacheVars, productVars>>

\* InventoryEngine.validate_data_consistency
ValidateDataConsistency ==
    /\ issues' = DataIssues(kits, products, business_rules)
    /\ lastOp' = "validate_data_consistency"
    /\ products' = CatalogsAfterRead(products, kits, business_rules).products
    /\ kits' = CatalogsAfterRead(products, kits, business_rules).kits
    /\ business_rules' = CatalogsAfterRead(products, kits, business_rules).business_rules
    /\ UNCHANGED <<results, raised, lastArg, loadReturned, sourceVars>>
    /\ UNCHANGED <<orderVars, now, clientVars, callVars>>
    /\ UNCHANGED <<requestVars, cacheVars, productVars, viewVars>>

\* ------------------------------------------------------------------------
\* The sources of the catalog runs (SpecCatalog): two kits, whole quantities
\* ------------------------------------------------------------------------
CatalogKitSkus == {"K1", "K2"}
CatalogKitRows == [ sku : CatalogKitSkus, status : {"Active", "Inactive"} ]
CatalogRows    == { [ kit_sku |-> k, component_sku |-> s,
                      component_name |-> ComponentName(s),
                      qty |-> [kind |-> "num", halves |-> 4, text |-> ""],
                      critical |-> "Y" ] :
                    k \in CatalogKitSkus, s \in Skus }
CatalogStock   == {12}

InitCatalogSources ==
    /\ shopStock  \in PartialFns(Skus, CatalogStock)
    /\ sheetKits  \in { rows \in SeqUpTo(CatalogKitRows, Cardinality(CatalogKitSkus)) :
                          OneRowPerKit(rows) }
    /\ sheetRows  \in SeqUpTo(CatalogRows, MaxComponents)
    /\ sheetRules \in PartialFns(Skus, BufferVals)

\* the stock of the shop changes
StockChanges ==
    /\ shopStock' \in PartialFns(Skus, CatalogStock) \ {shopStock}
    /\ UNCHANGED <<sheetKits, sheetRows, sheetRules, engineVars>>
    /\ UNCHANGED <<orderVars, now, clientVars, callVars>>
    /\ UNCHANGED <<requestVars, cacheVars, productVars, viewVars>>

\* the calls of the catalog runs: each kit by name, an unknown name, the
\* empty text, and no name
CalculateNamed == \E kit_sku \in CatalogKitSkus \cup {UnknownKit, NoneVal, ""} :
                      CalculateEffectiveInventory(kit_sku)

\* ------------------------------------------------------------------------
\* The sources of the reload runs (SpecReload): sheets that are edited and
\* a shop whose stock changes between the calls of load_data
\* ------------------------------------------------------------------------
ReloadKitSheets ==
    { rows \in SeqUpTo([ sku : CatalogKitSkus, status : {"Active"} ],
                       Cardinality(CatalogKitSkus)) : OneRowPerKit(rows) }
ReloadRowSheets ==
    { << >>,
      << [ kit_sku |-> "K1", component_sku |-> "A", component_name |-> ComponentName("A"),
           qty |-> [kind |-> "num", halves |-> 4, text |-> ""], critical |-> "Y" ],
         [ kit_sku |-> "K2", component_sku |-> "B", component_name |-> ComponentName("B"),
           qty |-> [kind |-> "num", halves |-> 4, text |-> ""], critical |-> "Y" ] >> }
ReloadRuleSheets == PartialFns({"A"}, BufferVals)

InitReloadSources ==
    /\ shopStock  \in PartialFns(Skus, CatalogStock)
    /\ sheetKits  \in ReloadKitSheets
    /\ sheetRows  \in ReloadRowSheets
    /\ sheetRules \in ReloadRuleSheets

\* the spreadsheet is edited
SheetEdited ==
    /\ sheetKits'  \in ReloadKitSheets
    /\ sheetRows'  \in ReloadRowSheets
    /\ sheetRules' \in ReloadRuleSheets
    /\ <<sheetKits', sheetRows', sheetRules'>> # <<sheetKits, sheetRows, sheetRules>>
    /\ UNCHANGED <<shopStock, engineVars>>
    /\ UNCHANGED <<orderVars, now, clientVars, callVars>>
    /\ UNCHANGED <<requestVars, cacheVars, productVars, viewVars>>

\* the SKUs of a catalog of kits
KitSkusOf(ks) == { ks[i].sku : i \in 1..Len(ks) }

\* C25: after a load_data that returned True each catalog holds exactly the
\* entries its source returned in that call: the products of the shop, the
\* kits of the kit-master sheet with the components of the mapping sheet,
\* and the rules of the rules sheet; nothing of an earlier load stays.
C25_LoadReplacesTheCatalogs ==
    [][ load_data(FALSE) =>
            /\ products' = GetProducts(shopStock)
            /\ business_rules' = BusinessRules(sheetRules)
            /\ KitSkusOf(kits') = KitSkusOf(KitMasterData(sheetKits))
            /\ \A i \in 1..Len(kits') :
                   kits'[i].components = ComponentsOf(sheetRows, kits'[i].sku)
      ]_vars

\* ------------------------------------------------------------------------
\* The sources of the criticality runs (SpecCritical): the mapping sheet
\* gives K2 the components of K1, row by row, with flags of their own in the
\* column "Is Critical Component"
\* ------------------------------------------------------------------------
CriticalFlags == {"Y", "N"}
CriticalStock == {3, 12}
CriticalRows  == { [ kit_sku |-> "K1", component_sku |-> s,
                     component_name |-> ComponentName(s),
                     qty |-> [kind |-> "num", halves |-> 4, text |-> ""],
                     critical |-> c ] : s \in Skus, c \in CriticalFlags }

\* the rows of a kit given to another kit, with other flags
TwinRows(rows, kit_sku, flags) ==
    [ i \in 1..Len(rows) |->
        [ rows[i] EXCEPT !.kit_sku = kit_sku, !.critical = flags[i] ] ]

InitCriticalSources ==
    /\ shopStock  \in PartialFns(Skus, CriticalStock)
    /\ sheetKits  = << [sku |-> "K1", status |-> "Active"],
                       [sku |-> "K2", status |-> "Active"] >>
    /\ \E rows \in SeqUpTo(CriticalRows, MaxComponents) :
           \E flags \in [1..Len(rows) -> CriticalFlags] :
               sheetRows = rows \o TwinRows(rows, "K2", flags)
    /\ sheetRules \in PartialFns(Skus, BufferVals)

\* what the claim compares of a result
Outcome(r) == << r.max_kits_possible, r.bottleneck_component, r.status >>

\* C27: two kits whose components differ in nothing but the is_critical
\* flags get the same max_kits_possible, the same bottleneck and the same
\* status from a calculation against the same products and rules.
C27_CriticalityIsNotRead ==
    ( /\ lastOp = "calculate_effective_inventory"
      /\ lastArg = NoneVal
      /\ Len(kits) = 2 ) =>
        /\ raised = ""
        /\ Len(results) = 2
        /\ Outcome(results[1]) = Outcome(results[2])

\* both kits calculated, limited by a component that is critical in one kit
\* and not in the other
C27_Witness ==
    /\ lastOp = "calculate_effective_inventory"
    /\ lastArg = NoneVal
    /\ Len(results) = 2
    /\ results[1].status = "LOW"
    /\ Len(kits[1].components) = 2
    /\ \E i \in 1..2 :
           /\ kits[1].components[i].is_critical # kits[2].components[i].is_critical
           /\ BottleneckName(kits[1].components[i]) = results[1].bottleneck_component

\* C28: a call of calculate_effective_inventory, whatever its argument, or
\* of validate_data_consistency leaves the products, the kits with their
\* component lists and the business rules exactly as they were.
C28_ReadOnlyCalls ==
    [][ lastOp' \in {"calculate_effective_inventory", "validate_data_consistency"} =>
            /\ products' = products
            /\ kits' = kits
            /\ business_rules' = business_rules
      ]_vars

\* the validator has reported a rule without a product and a kit's missing
\* component, and catalogs and rule are still there
C28_Witness ==
    /\ lastOp = "validate_data_consistency"
    /\ Len(issues) >= 2
    /\ \E s \in DOMAIN business_rules : s \notin DOMAIN products
    /\ \E i \in 1..Len(kits) : kits[i].components # << >>
    /\ products # << >>

\* C26: a load_data that returns False leaves products, kits and business
\* rules as they were before the call, so what calculate_effective_inventory
\* computes after it is what it computed before it.
C26_FailedLoadChangesNothing ==
    [][ (Reload /\ loadReturned' = << FALSE >>) =>
            /\ products' = products
            /\ kits' = kits
            /\ business_rules' = business_rules
            /\ ResultList(KitsToProcess(kits', NoneVal), products', business_rules')
                   = ResultList(KitsToProcess(kits, NoneVal), products, business_rules)
      ]_vars

\* a load that failed after the stock of the shop had changed: the catalogs
\* are those of the load before
C26_Witness ==
    /\ lastOp = "load_data"
    /\ loadReturned = << FALSE >>
    /\ products # << >>
    /\ products # GetProducts(shopStock)
    /\ kits # << >>
    /\ business_rules = BusinessRules(sheetRules)

\* ------------------------------------------------------------------------
\* Properties of the engine (SpecEngine)
\* ------------------------------------------------------------------------
\* the results of a call that has just returned, the catalogs still as it saw them
Returned == lastOp = "calculate_effective_inventory" /\ raised = ""
ResultIndex == IF Returned THEN 1..Len(results) ELSE {}
KitOf(r) == GetKit(kits, r.kit_sku)

AllPresent(kit) ==
    \A i \in 1..Len(kit.components) : kit.components[i].component_sku \in DOMAIN products
Divisible(kit) ==
    \A i \in 1..Len(kit.components) : kit.components[i].quantity_per_kit # 0

\* buffer of a component: its rule's minimum_buffer_stock, 0 without a rule
BufferOf(sku) ==
    IF sku \in DOMAIN business_rules THEN business_rules[sku].minimum_buffer_stock ELSE 0
\* adjusted availability: available stock minus buffer, floored at 0
AdjustedAvailability(c) ==
    Max2(0, available_stock(products[c.component_sku]) - BufferOf(c.component_sku))
\* floor(adjusted availability / quantity_per_kit)
Supportable(c) == Floor(2 * AdjustedAvailability(c), c.quantity_per_kit)
MinSupportable(kit) ==
    LET vals == { Supportable(kit.components[i]) : i \in 1..Len(kit.components) }
    IN  CHOOSE m \in vals : \A v \in vals : m <= v
Computable(kit) == kit.components # << >> /\ AllPresent(kit) /\ Divisible(kit)

\* C1: for a kit with at least one component, all of them in the product
\* catalog, the result's max_kits_possible is the minimum over the components
\* of floor(max(0, available_stock - buffer) / quantity_per_kit), the buffer
\* being 0 for a component without a business rule (the quotient is defined
\* for quantity_per_kit # 0, where the call returns).
C1_MaxKitsIsMinimum ==
    \A i \in ResultIndex :
        Computable(KitOf(results[i])) =>
            results[i].max_kits_possible = MinSupportable(KitOf(results[i]))

\* a kit of two components limited by the second one, whose buffer counts
C1_Witness ==
    \E i \in ResultIndex :
        LET kit == KitOf(results[i])
        IN  /\ Computable(kit)
            /\ Len(kit.components) = 2
            /\ kit.components[2].component_sku \in DOMAIN business_rules
            /\ Supportable(kit.components[2]) < Supportable(kit.components[1])
            /\ AdjustedAvailability(kit.components[2])
                   < available_stock(products[kit.components[2].component_sku])
            /\ results[i].max_kits_possible > 0

\* the first component of the kit, in bill-of-materials order, that is absent
FirstAbsent(kit) ==
    LET absent == { i \in 1..Len(kit.components) :
                      kit.components[i].component_sku \notin DOMAIN products }
    IN  kit.components[CHOOSE i \in absent : \A j \in absent : i <= j]

\* C2: a kit that references a component SKU absent from the product catalog
\* always yields max_kits_possible = 0, status CRITICAL and a bottleneck that
\* names the first absent SKU, wherever the absent component sits in the list.
C2_MissingComponentShortCircuits ==
    lastOp = "calculate_effective_inventory" =>
        LET todo == KitsToProcess(kits, lastArg)
        IN  \A i \in 1..Len(todo) :
                ~AllPresent(todo[i]) =>
                    /\ raised = ""
                    /\ results[i].max_kits_possible = 0
                    /\ results[i].status = "CRITICAL"
                    /\ results[i].bottleneck_component =
                           "Missing component: " \o FirstAbsent(todo[i]).component_sku

\* C3: a kit with an empty component list has max_kits_possible = 0, status
\* CRITICAL and the bottleneck "No components defined", whatever the product
\* catalog and the business rules hold.
C3_NoComponentsIsCritical ==
    \A i \in ResultIndex :
        KitOf(results[i]).components = << >> =>
            /\ results[i].max_kits_possible = 0
            /\ results[i].status = "CRITICAL"
            /\ results[i].bottleneck_component = "No components defined"

\* a kit without components, computed against loaded products and rules
C3_Witness ==
    \E i \in ResultIndex :
        /\ KitOf(results[i]).components = << >>
        /\ DOMAIN products # {}
        /\ DOMAIN business_rules # {}

\* C4: in every result the status is fixed by max_kits_possible alone:
\* CRITICAL exactly when it is 0, LOW exactly when it is 1..5, OK exactly when
\* it is 6 or more, and no other combination occurs.
C4_StatusThresholdsExact ==
    \A i \in ResultIndex :
        \/ results[i].max_kits_possible = 0 /\ results[i].status = "CRITICAL"
        \/ results[i].max_kits_possible \in 1..5 /\ results[i].status = "LOW"
        \/ results[i].max_kits_possible >= 6 /\ results[i].status = "OK"

\* the name a component is reported by
Identifier(c) == IF c.component_name # "" THEN c.component_name ELSE c.component_sku

\* the earliest component of the kit that attains the minimum
EarliestMinimum(kit) ==
    LET at == { i \in 1..Len(kit.components) :
                  Supportable(kit.components[i]) = MinSupportable(kit) }
    IN  kit.components[CHOOSE i \in at : \A j \in at : i <= j]

\* C5: when several components of a kit yield the same minimum supportable
\* quantity, the bottleneck is the earliest of them in the component list, by
\* its name, or by its SKU when the name is empty.
C5_EarliestBottleneckWins ==
    \A i \in ResultIndex :
        Computable(KitOf(results[i])) =>
            results[i].bottleneck_component = Identifier(EarliestMinimum(KitOf(results[i])))

\* two components of different identifiers tie for the minimum
C5_Witness ==
    \E i \in ResultIndex :
        LET kit == KitOf(results[i])
        IN  /\ Computable(kit)
            /\ Len(kit.components) = 2
            /\ Supportable(kit.components[1]) = Supportable(kit.components[2])
            /\ Identifier(kit.components[1]) # Identifier(kit.components[2])
            /\ results[i].bottleneck_component = Identifier(kit.components[1])

\* the values of K the model tries
Ks == 0..7

\* C6: for a kit with at least one component, all in the catalog, and every
\* K >= 0: if each component's adjusted availability is at least
\* quantity_per_kit * K, then max_kits_possible >= K.
C6_EnoughStockForK ==
    \A i \in ResultIndex : \A K \in Ks :
        LET kit == KitOf(results[i])
        IN  ( /\ kit.components # << >>
              /\ AllPresent(kit)
              /\ \A j \in 1..Len(kit.components) :
                     2 * AdjustedAvailability(kit.components[j])
                         >= kit.components[j].quantity_per_kit * K )
            => results[i].max_kits_possible >= K

\* C14: every result whose status is LOW or CRITICAL names a bottleneck:
\* bottleneck_component is neither None nor the empty text.
C14_ShortageNamesBottleneck ==
    \A i \in ResultIndex :
        results[i].status \in {"LOW", "CRITICAL"} =>
            /\ results[i].bottleneck_component # NoneVal
            /\ results[i].bottleneck_component # ""

\* a LOW result whose limiting component has an empty name cell, so that
\* the SKU stands in for the name
C14_Witness ==
    \E i \in ResultIndex :
        LET kit == KitOf(results[i])
        IN  /\ results[i].status = "LOW"
            /\ \E j \in 1..Len(kit.components) :
                   /\ kit.components[j].component_name = ""
                   /\ results[i].bottleneck_component = kit.components[j].component_sku

\* the results of the last call that are about a kit SKU
ResultsFor(sku) == { i \in 1..Len(results) : results[i].kit_sku = sku }

\* C15: calculate_effective_inventory returns, and what it returns is: with
\* no kit named, one result for each active kit of the catalog and none for
\* an inactive one; with a kit of the catalog named, one result, for that
\* kit, active or not; with a SKU named that no kit of the catalog has, the
\* empty list.
C15_ScopeOfCalculation ==
    lastOp = "calculate_effective_inventory" =>
        /\ raised = ""
        /\ lastArg = NoneVal =>
               \A k \in 1..Len(kits) :
                   Cardinality(ResultsFor(kits[k].sku)) = IF kits[k].is_active THEN 1 ELSE 0
        /\ (lastArg # NoneVal /\ HasKit(kits, lastArg)) =>
               (Len(results) = 1 /\ results[1].kit_sku = lastArg)
        /\ (lastArg # NoneVal /\ ~HasKit(kits, lastArg)) => results = << >>

\* C18: every component of the loaded catalog has a quantity per kit above
\* zero, so that no call of the engine divides by zero or by a negative
\* number and no result has a negative max_kits_possible.
C18_QuantitiesArePositive ==
    /\ \A k \in 1..Len(kits) :
           \A j \in 1..Len(kits[k].components) :
               kits[k].components[j].quantity_per_kit > 0
    /\ raised # "ZeroDivisionError"
    /\ \A i \in ResultIndex : results[i].max_kits_possible >= 0

\* ------------------------------------------------------------------------
\* Bounds of the sales model
\* ------------------------------------------------------------------------
PageSize     == 2       \* stands for the page size 'limit': 250
MaxFullPages == 2       \* stands for the 200 full pages of max_orders = 50000
MaxHistory   == 3       \* orders in the shop
MaxTicks     == 3       \* clock steps
TickHours    == 3       \* hours per clock step
CacheHours   == 6       \* cache_hours

MaxOrders  == PageSize * MaxFullPages        \* max_orders
StartClock == 48                             \* the clock at the start, in hours
Days       == {1, 2}                         \* the lookback windows asked for
OrderTimes == {12, 36, 40}                   \* created_at of the orders, in hours

\* line_items of an order: sku as the API gives it (None, blank, padded)
LineItemLists ==
    { << [sku |-> "A", quantity |-> 1] >>,
      << [sku |-> " A ", quantity |-> 2], [sku |-> "B", quantity |-> 1] >>,
      << [sku |-> NoneVal, quantity |-> 1], [sku |-> "  ", quantity |-> 3],
         [sku |-> "B", quantity |-> 0] >> }

Orders == [ created_at : OrderTimes, line_items : LineItemLists ]

NewestFirst(h) == \A i \in 1..(Len(h) - 1) : h[i].created_at >= h[i + 1].created_at

EmptyMap == << >>
Count(mapping, sku) == IF sku \in DOMAIN mapping THEN mapping[sku] ELSE 0

\* ------------------------------------------------------------------------
\* The order source: GET orders.json with created_at_min, created_at_max
\* (orders created at or before it) and limit, newest first
\* ------------------------------------------------------------------------
Matches(order, min, max, filters) ==
    /\ (max = << >> \/ order.created_at <= max[1])
    /\ (filters => order.created_at >= min)

OrdersResponse(history, min, max, filters) ==
    LET found == SelectSeq(history, LAMBDA o : Matches(o, min, max, filters))
    IN  SubSeq(found, 1, Min2(PageSize, Len(found)))

\* ------------------------------------------------------------------------
\* shopify_client.py: _get_recent_sales_fallback
\* ------------------------------------------------------------------------
\* str.strip() on the sku texts of the model
Strip(text) == IF text = " A " THEN "A" ELSE IF text = "  " THEN "" ELSE text

\* lines 277-278
ItemSku(item) == IF item.sku = NoneVal THEN "" ELSE Strip(item.sku)

\* line 282
AddSale(sales, sku, quantity) ==
    [ k \in DOMAIN sales \cup {sku} |-> Count(sales, k) + IF k = sku THEN quantity ELSE 0 ]

RECURSIVE AddLineItems(_, _)
\* lines 275-282
AddLineItems(sales, items) ==
    IF items = << >> THEN sales
    ELSE LET sku == ItemSku(Head(items))
             quantity == Head(items).quantity
         IN  IF sku # "" /\ quantity > 0
             THEN AddLineItems(AddSale(sales, sku, quantity), Tail(items))
             ELSE AddLineItems(sales, Tail(items))

RECURSIVE ProcessOrders(_, _, _, _, _)
\* the loop of lines 258-282 from order i on; oldest is oldest_order_in_batch
ProcessOrders(orders, i, sales, oldest, start) ==
    IF i > Len(orders)
    THEN [ sales |-> sales, oldest |-> oldest ]
    ELSE IF orders[i].created_at < start
         THEN [ sales |-> sales, oldest |-> << orders[i].created_at >> ]
         ELSE ProcessOrders(orders, i + 1,
                            AddLineItems(sales, orders[i].line_items),
                            << orders[i].created_at >>, start)

\* the loop test of line 241 with <= for <
BelowCeilingOrAt(total) == total <= MaxOrders

\* line 241: total_orders_processed < max_orders
BelowCeiling(total) == total < MaxOrders

\* the test of line 285 with the comparison turned round
BeyondRangeFlipped(oldest, start) == oldest # << >> /\ oldest[1] > start

\* line 285
BeyondRange(oldest, start) == oldest # << >> /\ oldest[1] < start

\* the test of line 289 left out: every page is followed by another
FullPageAlways(orders) == TRUE

\* line 289
FullPage(orders) == Len(orders) = PageSize

\* the test of line 209 on an age that was not divided by 3600
CacheFreshSeconds(hours_old) == hours_old * 3600 < CacheHours

\* line 209
CacheFresh(hours_old) == hours_old < CacheHours

\* json.dump / json.load of a dict of str -> int
JsonDump(mapping) == { << k, mapping[k] >> : k \in DOMAIN mapping }
JsonLoad(text) == [ k \in { p[1] : p \in text } |-> (CHOOSE p \in text : p[1] = k)[2] ]

StoreId == "mexico"      \* self.store_id, DEFAULT_STORE of store_config.py

\* the name of line 201 with the window in it
CacheFileNameWithDays(store_id, days) == << "sales_velocity_cache", store_id, days >>

\* line 201: f'sales_velocity_cache_{self.store_id}.json'
CacheFileName(store_id, days) == << "sales_velocity_cache", store_id >>

\* a file written under a name
FileAt(name, file) ==
    << [ data |-> file[1].data, mtime |-> file[1].mtime,
         readable |-> file[1].readable, name |-> name ] >>

\* line 204: os.path.exists(cache_file), and the file of that name
FileNamed(file, name) ==
    IF file # << >> /\ file[1].name = name THEN file ELSE << >>

\* lines 302-303 as a write that leaves the modification time of a file
\* that is there already
WriteCacheKeepsTime(file, sales, time) ==
    << [ data |-> JsonDump(sales),
         mtime |-> IF file = << >> THEN time ELSE file[1].mtime,
         readable |-> TRUE ] >>

\* lines 302-303 when they succeed: the cache file after the sweep
WriteCache(file, sales, time) ==
    << [ data |-> JsonDump(sales), mtime |-> time, readable |-> TRUE ] >>

\* lines 301-309: open(cache_file, 'w') fails and the file stays as it was,
\* or it truncates the file and json.dump fails, which leaves a file that
\* json.load rejects; either exception is caught at line 306
CacheAfterWrite(file, sales, time, d, name) ==
    IF d = "ok" THEN FileAt(name, WriteCache(file, sales, time))
    ELSE IF d = "denied" THEN file
    ELSE FileAt(name, << [ data |-> {}, mtime |-> time, readable |-> FALSE ] >>)

\* lines 204-216 with the except clause left out: the error of the read
\* leaves the call
CacheReadUncaught(file, time) ==
    IF file = << >> THEN "miss"
    ELSE IF CacheFresh(time - file[1].mtime)
         THEN IF file[1].readable THEN "hit" ELSE "raise"
         ELSE "miss"

\* lines 204-216: "hit" when line 213 returns the cached mapping, "miss"
\* when the code goes on to the sweep, also after the except of line 214
CacheRead(file, time) ==
    IF file = << >> THEN "miss"
    ELSE IF CacheFresh(time - file[1].mtime)
         THEN IF file[1].readable THEN "hit" ELSE "miss"
         ELSE "miss"

\* lines 297-311: write the cache and return
Finish(sales, reason) ==
    /\ cache' = CacheAfterWrite(cache, sales, now, disk, CacheFileName(StoreId, callDays))
    /\ returned' = sales
    /\ sales_by_sku' = sales
    /\ pc' = "idle"
    /\ endReason' = reason
    /\ written' = IF disk = "ok" THEN sales ELSE written
    /\ writtenDays' = IF disk = "ok" THEN callDays ELSE writtenDays

\* lines 200-239: the cache check, and the set-up of the sweep on a miss
GetRecentSales(days) ==
    /\ pc = "idle"
    /\ callDays' = days
    /\ callTime' = now
    /\ callRequests' = 0
    /\ cacheBefore' = cache
    /\ lastPage' = << >>
    /\ oldSeen' = FALSE
    /\ callCleared' = clearPending
    /\ clearPending' = << >>
    /\ LET outcome == CacheRead(FileNamed(cache, CacheFileName(StoreId, days)), now)
       IN  IF outcome = "hit"
           THEN /\ returned' = JsonLoad(cache[1].data)
                /\ cacheHit' = TRUE
                /\ endReason' = "cache"
                /\ callRaised' = ""
                /\ UNCHANGED <<cache, pc, start_date, created_at_max, sales_by_sku,
                               total_orders_processed, written, writtenDays>>
           ELSE IF outcome = "raise"
           THEN /\ cacheHit' = FALSE
                /\ endReason' = "raised"
                /\ callRaised' = "Exception"
                /\ UNCHANGED <<cache, pc, start_date, created_at_max, sales_by_sku,
                               total_orders_processed, returned, written, writtenDays>>
           ELSE /\ start_date' = now - 24 * days
                /\ created_at_max' = << >>
                /\ sales_by_sku' = EmptyMap
                /\ total_orders_processed' = 0
                /\ pc' = "sweep"
                /\ cacheHit' = FALSE
                /\ endReason' = ""
                /\ callRaised' = ""
                /\ UNCHANGED <<cache, returned, written, writtenDays>>
    /\ UNCHANGED <<sourceVars, engineVars, orderVars, now, disk>>
    /\ UNCHANGED <<requestVars, productVars, viewVars>>

Call == \E days \in Days : GetRecentSales(days)

\* one turn of the loop of lines 241-295; fails: the request ends in an
\* error other than rate limiting and _make_request returns {}
PageRequest(fails) ==
    /\ pc = "sweep"
    /\ BelowCeiling(total_orders_processed)
    /\ callRequests' = callRequests + 1
    /\ IF fails
       THEN /\ Finish(sales_by_sku, "error")
            /\ UNCHANGED <<created_at_max, total_orders_processed, lastPage, oldSeen>>
       ELSE LET orders == OrdersResponse(shopOrders, start_date, created_at_max,
                                         sourceFilters)
                done   == ProcessOrders(orders, 1, sales_by_sku, << >>, start_date)
            IN  /\ lastPage' = orders
                /\ oldSeen' = \E i \in 1..Len(orders) : orders[i].created_at < start_date
                /\ IF orders = << >>
                   THEN /\ Finish(sales_by_sku, "empty")
                        /\ UNCHANGED <<created_at_max, total_orders_processed>>
                   ELSE /\ total_orders_processed' = total_orders_processed + Len(orders)
                        /\ IF BeyondRange(done.oldest, start_date)
                           THEN /\ Finish(done.sales, "old")
                                /\ UNCHANGED created_at_max
                           ELSE IF FullPage(orders)
                           THEN /\ created_at_max' = << orders[Len(orders)].created_at >>
                                /\ sales_by_sku' = done.sales
                                /\ UNCHANGED <<cache, returned, pc, endReason, written, writtenDays>>
                           ELSE /\ Finish(done.sales, "short")
                                /\ UNCHANGED created_at_max
    /\ UNCHANGED <<sourceVars, engineVars, orderVars, now, start_date,
                   callDays, callTime, cacheHit, cacheBefore>>
    /\ UNCHANGED <<requestVars, cacheVars, productVars, viewVars>>

Page == \E fails \in BOOLEAN : PageRequest(fails)

\* line 241: the loop ends when total_orders_processed has reached max_orders
CeilingReached ==
    /\ pc = "sweep"
    /\ ~BelowCeiling(total_orders_processed)
    /\ Finish(sales_by_sku, "ceiling")
    /\ UNCHANGED <<sourceVars, engineVars, orderVars, now, start_date, created_at_max,
                   total_orders_processed, callDays, callTime, callRequests, cacheHit,
                   cacheBefore, lastPage, oldSeen>>
    /\ UNCHANGED <<requestVars, cacheVars, productVars, viewVars>>

\* os.remove of line 317, as it leaves the place of the file
RemoveFileKept(file) == file

\* line 317: os.remove(cache_file)
RemoveFile(file) == << >>

\* ShopifyClient.clear_sales_cache (lines 313-319)
ClearSalesCache ==
    /\ pc = "idle"
    /\ cache' = IF cache # << >> THEN RemoveFile(cache) ELSE cache
    /\ clearPending' = << [ file |-> cache, time |-> now, returned |-> cache # << >> ] >>
    /\ UNCHANGED <<pc, start_date, created_at_max, sales_by_sku,
                   total_orders_processed, returned>>
    /\ UNCHANGED <<sourceVars, engineVars, orderVars, now, callVars, requestVars>>
    /\ UNCHANGED <<disk, callCleared, callRaised, productVars, viewVars>>

\* time passes
Tick ==
    /\ now < StartClock + MaxTicks * TickHours
    /\ now' = now + TickHours
    /\ UNCHANGED <<sourceVars, engineVars, orderVars, clientVars, callVars>>
    /\ UNCHANGED <<requestVars, cacheVars, productVars, viewVars>>

\* ------------------------------------------------------------------------
\* Properties of the catalog operations (SpecCatalog)
\* ------------------------------------------------------------------------
\* the (kit, component) pairs of the catalog, as positions <<i, j>>, whose
\* component SKU is no product
AbsentPairs ==
    { p \in (1..Len(kits)) \X (1..MaxComponents) :
        /\ p[2] <= Len(kits[p[1]].components)
        /\ kits[p[1]].components[p[2]].component_sku \notin DOMAIN products }

\* the business rules whose SKU is no product
OrphanRules == { sku \in DOMAIN business_rules : sku \notin DOMAIN products }

\* how often a text is in a list
Occurrences(list, text) == Cardinality({ i \in 1..Len(list) : list[i] = text })

\* how many absent pairs and orphan rules a text describes
Described(text) ==
    Cardinality({ p \in AbsentPairs :
                    text = KitIssue(kits[p[1]].components[p[2]].component_sku,
                                    kits[p[1]].sku) })
    + Cardinality({ sku \in OrphanRules : text = RuleIssue(sku) })

\* C13: the list validate_data_consistency returns holds one text for each
\* (kit, component) pair of the catalog, active kit or not, whose component
\* is no product, one text for each business rule whose SKU is no product,
\* and nothing else; it is empty exactly when there is no such pair or rule.
C13_OneIssuePerInconsistency ==
    lastOp = "validate_data_consistency" =>
        /\ Len(issues) = Cardinality(AbsentPairs) + Cardinality(OrphanRules)
        /\ \A i \in 1..Len(issues) : Occurrences(issues, issues[i]) = Described(issues[i])
        /\ \A p \in AbsentPairs :
               \E i \in 1..Len(issues) :
                   issues[i] = KitIssue(kits[p[1]].components[p[2]].component_sku,
                                        kits[p[1]].sku)
        /\ \A sku \in OrphanRules : \E i \in 1..Len(issues) : issues[i] = RuleIssue(sku)
        /\ (issues = << >>) <=> (AbsentPairs = {} /\ OrphanRules = {})

\* an inactive kit with an absent component, an active kit with a present
\* one, and an orphan rule: two texts
C13_Witness ==
    /\ lastOp = "validate_data_consistency"
    /\ Len(issues) = 2
    /\ \E p \in AbsentPairs : ~kits[p[1]].is_active
    /\ \E i \in 1..Len(kits) :
           /\ kits[i].is_active
           /\ kits[i].components # << >>
           /\ \A j \in 1..Len(kits[i].components) :
                  kits[i].components[j].component_sku \in DOMAIN products
    /\ OrphanRules # {}

\* ------------------------------------------------------------------------
\* One Product and its forecast figures (SpecProduct)
\* ------------------------------------------------------------------------
MaxUnitsSold == 10                    \* units sold in the window, at most
WindowDays   == {7, 30}               \* window lengths, in days
ItemStock    == {0, 3, 12}

\* the Products of the runs: the velocity is units / days, or below zero
Items ==
    { [ sku |-> "A", current_stock |-> c, reserved_stock |-> 0,
        units_sold_30_days |-> Max2(0, u), daily_sales_velocity |-> Rate(u, d) ] :
      c \in ItemStock, u \in (0 - 1)..MaxUnitsSold, d \in WindowDays }

InitProduct ==
    /\ product \in Items
    /\ productBuffer = << >>
    /\ productDays = << >>

\* the forecast row of a product is built (dashboard.py, lines 194-208)
ReadForecast ==
    /\ productBuffer = << >>
    /\ productBuffer' = << recommended_buffer(product) >>
    /\ productDays' = << days_of_stock(product) >>
    /\ UNCHANGED product
    /\ UNCHANGED <<sourceVars, engineVars, orderVars, now, clientVars, callVars>>
    /\ UNCHANGED <<requestVars, cacheVars, viewVars>>

\* C16: the recommended buffer of a product is its daily velocity times 7
\* rounded to the nearest integer when the velocity is above zero (either
\* neighbour at a tie), and 0 when the velocity is zero or below.
C16_RecommendedBufferRounds ==
    productBuffer # << >> =>
        LET v == product.daily_sales_velocity
            b == productBuffer[1]
        IN  IF v.num > 0
            THEN /\ 2 * (BufferDays * v.num - b * v.den) <= v.den
                 /\ 2 * (b * v.den - BufferDays * v.num) <= v.den
            ELSE b = 0

\* C20: a list of results a caller has kept holds the values it held when
\* it was returned, after any later load_data and any later call of
\* calculate_effective_inventory: every call returns a new list.
C20_ResultsAreSnapshots ==
    viewRef # 0 =>
        /\ viewRef \in DOMAIN heap
        /\ heap[viewRef] = viewSeen

\* a caller kept a list; the catalog was loaded again and a call with the
\* same argument returned another list with other values
C20_Witness ==
    /\ viewRef # 0
    /\ viewSeen # << >>
    /\ lastOp = "calculate_effective_inventory"
    /\ lastArg = viewArg
    /\ resultRef \notin {0, viewRef}
    /\ heap[resultRef] # heap[viewRef]
    /\ heap[viewRef] = viewSeen

\* ------------------------------------------------------------------------
\* ShopifyClient._make_request (src/src/shopify_client.py, lines 38-56)
\* ------------------------------------------------------------------------
MaxAttempts == 3                      \* GETs after which the source stops answering 429

Endpoints == {"orders.json", "products.json"}
ParamSets == {"limit=250", "limit=250&created_at_max=36"}
Bodies    == {"page1", "page2"}       \* the JSON documents of the 200 answers
\* texts of the header Retry-After: whole seconds, zero, and the decimal form
RetryAfterTexts == {"2", "0", "2.0"}
DefaultRetryAfter == 1                \* line 47: headers.get('Retry-After', 1)
EmptyDict == "{}"                     \* the {} of line 56

\* the answers of the source: 200 with a body, 429 with or without the
\* header, an HTTP error status, or no answer at all (connection error)
Answers ==
    [status_code : {200}, body : Bodies]
        \cup [status_code : {429}, headers : PartialFns({"Retry-After"}, RetryAfterTexts)]
        \cup [status_code : {500}]
        \cup [status_code : {0}]

\* int(text) of line 47 returns for these texts and raises ValueError for the others
IntParses(text) == text \in {"0", "2"}
IntOf(text) == IF text = "2" THEN 2 ELSE 0

\* line 47 for a header that int() accepts, or for no header
RetryAfter(headers) ==
    IF "Retry-After" \in DOMAIN headers
    THEN IntOf(headers["Retry-After"])
    ELSE DefaultRetryAfter

\* line 47 raises: the header is there and int() rejects its text
RetryAfterRaises(headers) ==
    "Retry-After" \in DOMAIN headers /\ ~IntParses(headers["Retry-After"])

\* a caller calls _make_request(endpoint, params): line 43 issues the GET
MakeRequest(endpoint, params) ==
    /\ reqPc # "waiting"
    /\ reqCall' = <<endpoint, params>>
    /\ reqSent' = << <<endpoint, params>> >>
    /\ reqSlept' = << >>
    /\ reqAnswers' = << >>
    /\ reqResult' = << >>
    /\ reqRaised' = ""
    /\ reqPc' = "waiting"
    /\ UNCHANGED <<sourceVars, engineVars, orderVars, now, clientVars, callVars>>
    /\ UNCHANGED <<cacheVars, productVars, viewVars>>

Request == \E endpoint \in Endpoints, params \in ParamSets : MakeRequest(endpoint, params)

\* lines 46-56 for one answer: a 429 sleeps and issues the GET of the
\* recursive call, unless int() raises; 200 returns the body; an error
\* status (raise_for_status) or a connection error returns {}
HandleAnswer(response) ==
    /\ reqPc = "waiting"
    /\ response.status_code = 429 => Len(reqSent) < MaxAttempts
    /\ reqAnswers' = Append(reqAnswers, response)
    /\ IF response.status_code = 429
       THEN IF RetryAfterRaises(response.headers)
            THEN /\ reqRaised' = "ValueError"
                 /\ reqPc' = "done"
                 /\ UNCHANGED <<reqSent, reqSlept, reqResult>>
            ELSE /\ reqSlept' = Append(reqSlept, RetryAfter(response.headers))
                 /\ reqSent' = Append(reqSent, reqCall)
                 /\ UNCHANGED <<reqPc, reqResult, reqRaised>>
       ELSE /\ reqResult' = IF response.status_code = 200
                            THEN << response.body >>
                            ELSE << EmptyDict >>
            /\ reqPc' = "done"
            /\ UNCHANGED <<reqSent, reqSlept, reqRaised>>
    /\ UNCHANGED reqCall
    /\ UNCHANGED <<sourceVars, engineVars, orderVars, now, clientVars, callVars>>
    /\ UNCHANGED <<cacheVars, productVars, viewVars>>

Answer == \E response \in Answers : HandleAnswer(response)

\* the request of line 243 is answered with 429: _make_request (lines 46-49)
\* sleeps and asks again, or int() raises ValueError on the Retry-After text
\* and the exception leaves _make_request and the sweep, which catches
\* nothing around line 243; reqAnswers and reqSlept keep the 429 answers and
\* the sleeps of the run
PageRateLimited(headers) ==
    /\ pc = "sweep"
    /\ BelowCeiling(total_orders_processed)
    /\ Len(reqAnswers) < MaxAttempts
    /\ reqAnswers' = Append(reqAnswers, [status_code |-> 429, headers |-> headers])
    /\ IF RetryAfterRaises(headers)
       THEN /\ pc' = "idle"
            /\ endReason' = "raised"
            /\ callRaised' = "ValueError"
            /\ UNCHANGED reqSlept
       ELSE /\ reqSlept' = Append(reqSlept, RetryAfter(headers))
            /\ UNCHANGED <<pc, endReason, callRaised>>
    /\ UNCHANGED <<cache, start_date, created_at_max, sales_by_sku,
                   total_orders_processed, returned>>
    /\ UNCHANGED <<callDays, callTime, callRequests, cacheHit, cacheBefore,
                   lastPage, oldSeen, written, writtenDays>>
    /\ UNCHANGED <<reqPc, reqCall, reqSent, reqResult, reqRaised>>
    /\ UNCHANGED <<disk, clearPending, callCleared>>
    /\ UNCHANGED <<sourceVars, engineVars, orderVars, now, productVars, viewVars>>

RateLimited == \E headers \in PartialFns({"Retry-After"}, RetryAfterTexts) :
                   PageRateLimited(headers)

\* ------------------------------------------------------------------------
\* Properties of _make_request (SpecRequest)
\* ------------------------------------------------------------------------
\* the seconds a 429 answer asks the client to wait: the number its
\* Retry-After text denotes, one second when there is no header
SecondsAsked(response) ==
    IF "Retry-After" \notin DOMAIN response.headers THEN 1
    ELSE IF response.headers["Retry-After"] = "0" THEN 0
    ELSE 2

\* what a final answer hands to the caller
Handed(response) ==
    IF response.status_code = 200 THEN response.body ELSE EmptyDict

\* C11: every 429 answer is followed by a retry with the same endpoint and
\* params, the retry comes after a sleep of the seconds the answer asked for
\* (one second without a header), that sleep is longer than zero, no
\* exception leaves the call, and the caller receives the first answer that
\* is not a 429.
C11_RateLimitedIsRetriedAfterWait ==
    /\ reqRaised = ""
    /\ \A i \in 1..Len(reqSent) : reqSent[i] = reqCall
    /\ \A i \in 1..Len(reqAnswers) :
           reqAnswers[i].status_code = 429 =>
               /\ Len(reqSent) > i
               /\ Len(reqSlept) >= i
               /\ reqSlept[i] = SecondsAsked(reqAnswers[i])
               /\ reqSlept[i] > 0
    /\ reqPc = "done" =>
           /\ reqAnswers # << >>
           /\ reqAnswers[Len(reqAnswers)].status_code # 429
           /\ reqResult = << Handed(reqAnswers[Len(reqAnswers)]) >>

\* ------------------------------------------------------------------------
\* Properties of the sales aggregator (SpecSales)
\* ------------------------------------------------------------------------
\* a call has been made and has returned
CallDone == callDays # 0 /\ pc = "idle"

\* C7: a call made while the cache file a sweep has written is less than 6
\* hours old returns exactly the mapping that sweep wrote and issues no
\* request to the order source.
C7_CacheRoundTrip ==
    ( /\ callDays # 0
      /\ cacheBefore # << >>
      /\ callTime - cacheBefore[1].mtime < 6 )
    => /\ pc = "idle"
       /\ callRequests = 0
       /\ returned = written

\* a call served from a cache file that is 3 hours old and holds sales
C7_Witness ==
    /\ CallDone
    /\ cacheBefore # << >>
    /\ callTime - cacheBefore[1].mtime = 3
    /\ callRequests = 0
    /\ written # EmptyMap
    /\ returned = written

\* C8: when a page holds an order created before the window start, the sweep
\* stops after that page and issues no further page request, full page or not.
C8_EarlyExitOnOldOrder == oldSeen => pc = "idle"

\* a full page with orders inside and outside the window ended the sweep
C8_Witness ==
    /\ oldSeen
    /\ pc = "idle"
    /\ Len(lastPage) = PageSize
    /\ \E i \in 1..Len(lastPage) : lastPage[i].created_at >= start_date
    /\ endReason = "old"

RECURSIVE UnitsOf(_, _)
\* the units of a SKU in a list of line items
UnitsOf(items, sku) ==
    IF items = << >> THEN 0
    ELSE UnitsOf(Tail(items), sku)
         + IF ItemSku(Head(items)) = sku /\ Head(items).quantity > 0
           THEN Head(items).quantity ELSE 0

RECURSIVE UnitsSold(_, _, _)
\* the units of a SKU over the orders created at or after start, each once
UnitsSold(history, sku, start) ==
    IF history = << >> THEN 0
    ELSE UnitsSold(Tail(history), sku, start)
         + IF Head(history).created_at >= start
           THEN UnitsOf(Head(history).line_items, sku) ELSE 0

\* C9: when a sweep finishes without a request error and below the safety
\* ceiling, the count returned for each SKU is the sum of that SKU's line-item
\* quantities over the orders created inside the window, each order once.
C9_EachOrderCountedOnce ==
    ( /\ CallDone
      /\ ~cacheHit
      /\ endReason \in {"empty", "old", "short"}
      /\ total_orders_processed < MaxOrders )
    => \A sku \in Skus : Count(returned, sku) = UnitsSold(shopOrders, sku, start_date)

VelocityWindowDays == 30              \* line 183: the default window, in days

\* C17: after load_data, every product of the catalog has a daily sales
\* velocity equal to the units of its SKU sold in the lookback window,
\* divided by the days of the window.
C17_VelocityAfterLoad ==
    lastOp = "load_data" =>
        \A sku \in DOMAIN products :
            LET v == products[sku].daily_sales_velocity
            IN  v.num * VelocityWindowDays =
                    v.den * UnitsSold(shopOrders, sku, now - 24 * VelocityWindowDays)

\* C21: a page request is issued only while the orders processed are below
\* the ceiling, and with it the orders processed do not pass the ceiling.
C21_CeilingBoundsTheSweep ==
    [][ callRequests' = callRequests + 1 =>
            /\ total_orders_processed < MaxOrders
            /\ total_orders_processed' <= MaxOrders ]_vars

\* a sweep of full pages that the ceiling ended
C21_Witness ==
    /\ CallDone
    /\ endReason = "ceiling"
    /\ total_orders_processed = MaxOrders
    /\ callRequests = MaxFullPages

RECURSIVE PageUnits(_, _)
\* the units of a SKU over all line items of all orders of a page
PageUnits(orders, sku) ==
    IF orders = << >> THEN 0
    ELSE UnitsOf(Head(orders).line_items, sku) + PageUnits(Tail(orders), sku)

\* C22: with every page the sweep receives, the count of each SKU grows by
\* the quantities of that SKU over every line item of every order of the
\* page (blank or absent SKUs and quantities not above zero left out), also
\* when the page holds an order older than the window start.
C22_WholePageIsCounted ==
    [][ (callRequests' = callRequests + 1 /\ endReason' # "error") =>
            \A sku \in Skus :
                Count(sales_by_sku', sku) = Count(sales_by_sku, sku) + PageUnits(lastPage', sku)
      ]_vars

\* C23: a page of fewer orders than the page size, the empty page included,
\* is the last one and no request follows it; after a page of exactly the
\* page size with no order older than the window, below the ceiling, the
\* sweep goes on with created_at_max set to the creation time of the last
\* order of that page, and the page that request returns lies within it.
C23_NaturalTermination ==
    [][ (callRequests' = callRequests + 1 /\ endReason' # "error") =>
            /\ Len(lastPage') < PageSize => pc' = "idle"
            /\ ( /\ Len(lastPage') = PageSize
                 /\ ~oldSeen'
                 /\ BelowCeiling(total_orders_processed') ) =>
                    /\ pc' = "sweep"
                    /\ created_at_max' = << lastPage'[PageSize].created_at >>
            /\ created_at_max # << >> =>
                    \A i \in 1..Len(lastPage') :
                        lastPage'[i].created_at <= created_at_max[1]
      ]_vars

\* a sweep whose first page was full and whose second page was short
C23_Witness ==
    /\ CallDone
    /\ callRequests = 2
    /\ endReason = "short"
    /\ lastPage # << >>
    /\ Len(lastPage) < PageSize
    /\ created_at_max # << >>

C29_EverySweepReturns ==
    /\ callRequests <= MaxFullPages
    /\ (callDays # 0 /\ pc = "idle") =>
           /\ callRaised = ""
           /\ endReason \in {"cache", "empty", "old", "short", "error", "ceiling"}

\* every sweep comes to its end, by a return or by an exception
SweepEnds == (pc = "sweep") ~> (pc = "idle")

\* C30: the cache file is named after the store alone: a call for any
\* window d2, made while the file that the sweep of a call for any window d1
\* wrote is less than 6 hours old, returns the mapping of that sweep, issues
\* no request and leaves the file as it is.
C30_CacheIgnoresTheWindow ==
    \A d1, d2 \in Days :
        ( /\ callDays = d2
          /\ writtenDays = d1
          /\ cacheBefore # << >>
          /\ callTime - cacheBefore[1].mtime < CacheHours ) =>
            /\ cacheHit
            /\ pc = "idle"
            /\ callRequests = 0
            /\ returned = written
            /\ cache = cacheBefore

\* a call for one window answered with the mapping a sweep for the other
\* window wrote, which is not what the orders of its own window add up to
C30_Witness ==
    /\ CallDone
    /\ cacheHit
    /\ writtenDays # 0
    /\ callDays # writtenDays
    /\ callRequests = 0
    /\ returned = written
    /\ \E sku \in Skus :
           Count(returned, sku) # UnitsSold(shopOrders, sku, callTime - 24 * callDays)

\* C10: when a page request of a sweep fails with an error other than rate
\* limiting, the mapping accumulated so far is not persisted and the cache
\* file is left as the call found it.
C10_ErrorLeavesCacheUntouched == endReason = "error" => cache = cacheBefore

\* ------------------------------------------------------------------------
\* Properties of the cache file (SpecCache)
\* ------------------------------------------------------------------------
\* C12: clear_sales_cache leaves no cache file and reports whether there
\* was one (False, and nothing changed, when there was none); the next call
\* of the aggregator is not answered from the cache and has issued at least
\* one request when it returns, however young the removed file was.
C12_ClearForcesSweep ==
    /\ clearPending # << >> =>
           /\ cache = << >>
           /\ clearPending[1].returned = (clearPending[1].file # << >>)
    /\ callCleared # << >> =>
           /\ ~cacheHit
           /\ callRaised = ""
           /\ CallDone => callRequests >= 1

\* a readable file 3 hours old was cleared, and the call made right after
\* has swept the order source and returned sales
C12_Witness ==
    /\ callCleared # << >>
    /\ callCleared[1].returned
    /\ callCleared[1].file[1].readable
    /\ callCleared[1].time - callCleared[1].file[1].mtime = 3
    /\ callTime = callCleared[1].time
    /\ CallDone
    /\ callRequests >= 1
    /\ returned # EmptyMap

\* C19: a call that finds a cache file it cannot read or parse goes on to
\* the sweep as on a miss and returns the sweep's mapping; a sweep whose
\* cache write fails still returns the mapping it computed; no exception
\* leaves the call in either case.
C19_CacheErrorsAreNotFatal ==
    /\ (callDays # 0 /\ cacheBefore # << >> /\ ~cacheBefore[1].readable) =>
           /\ callRaised = ""
           /\ ~cacheHit
           /\ CallDone => (callRequests >= 1 /\ returned = sales_by_sku)
    /\ (CallDone /\ ~cacheHit /\ disk # "ok") =>
           /\ callRaised = ""
           /\ endReason \in {"empty", "old", "short", "error", "ceiling"}
           /\ returned = sales_by_sku

\* a call found a young file that json.load rejects, swept the source,
\* returned sales, and its own write failed as well
C19_Witness ==
    /\ CallDone
    /\ cacheBefore # << >>
    /\ ~cacheBefore[1].readable
    /\ callTime - cacheBefore[1].mtime < CacheHours
    /\ disk = "full"
    /\ callRequests >= 1
    /\ returned # EmptyMap
    /\ returned = sales_by_sku

\* ------------------------------------------------------------------------
\* Specifications
\* ------------------------------------------------------------------------
InitOrders ==
    /\ shopOrders \in { h \in SeqUpTo(Orders, MaxHistory) : NewestFirst(h) }
    /\ sourceFilters \in BOOLEAN

\* ShopifyClient.__init__, no cache file on disk
InitClient ==
    /\ now = StartClock
    /\ cache = << >>
    /\ pc = "idle"
    /\ start_date = 0
    /\ created_at_max = << >>
    /\ sales_by_sku = EmptyMap
    /\ total_orders_processed = 0
    /\ returned = EmptyMap
    /\ callDays = 0
    /\ callTime = 0
    /\ callRequests = 0
    /\ cacheHit = FALSE
    /\ cacheBefore = << >>
    /\ endReason = ""
    /\ lastPage = << >>
    /\ oldSeen = FALSE
    /\ written = EmptyMap
    /\ writtenDays = 0
    /\ clearPending = << >>
    /\ callCleared = << >>
    /\ callRaised = ""

\* the disk takes every write
DiskOk == disk = "ok"

\* a product without sales, its forecast figures not read
NoItem ==
    /\ product = [ sku |-> "A", current_stock |-> 0, reserved_stock |-> 0,
                units_sold_30_days |-> 0, daily_sales_velocity |-> Rate(0, 1) ]
    /\ productBuffer = << >>
    /\ productDays = << >>

\* order histories of the cache runs: none, one order, and a full page of
\* orders created in the same hour
CacheHistories ==
    { << >>,
      << [created_at |-> 36, line_items |-> << [sku |-> "A", quantity |-> 1] >>] >>,
      [ i \in 1..PageSize |->
          [created_at |-> 40, line_items |-> << [sku |-> " A ", quantity |-> 2],
                                                [sku |-> "B", quantity |-> 1] >>] ] }

\* the product list and the order history of the load runs, the sheets empty
InitShop ==
    /\ shopStock \in PartialFns(Skus, StockVals)
    /\ sheetKits = << >>
    /\ sheetRows = << >>
    /\ sheetRules = << >>
    /\ shopOrders \in CacheHistories
    /\ sourceFilters = TRUE

InitCacheRuns ==
    /\ shopOrders \in CacheHistories
    /\ sourceFilters = TRUE
    /\ disk \in {"ok", "denied", "full"}

NoSources ==
    /\ shopStock = << >>
    /\ sheetKits = << >>
    /\ sheetRows = << >>
    /\ sheetRules = << >>

NoOrders ==
    /\ shopOrders = << >>
    /\ sourceFilters = TRUE

\* no _make_request call has been made
InitRequest ==
    /\ reqPc = "idle"
    /\ reqCall = << >>
    /\ reqSent = << >>
    /\ reqSlept = << >>
    /\ reqAnswers = << >>
    /\ reqResult = << >>
    /\ reqRaised = ""


\* the engine over the sheets and the product list
InitE == InitSources /\ InitEngine /\ NoOrders /\ InitClient /\ InitRequest /\ DiskOk
         /\ NoItem
NextE == LoadData \/ Calculate
SpecEngine == InitE /\ [][NextE]_vars

\* the sales aggregator over the order history
InitS == NoSources /\ InitEngine /\ InitOrders /\ InitClient /\ InitRequest /\ DiskOk
         /\ NoItem
NextS == Call \/ Page \/ CeilingReached \/ Tick
SpecSales == InitS /\ [][NextS]_vars

\* one caller of _make_request and the answers of the source
InitR == NoSources /\ InitEngine /\ NoOrders /\ InitClient /\ InitRequest /\ DiskOk
         /\ NoItem
NextR == Request \/ Answer
SpecRequest == InitR /\ [][NextR]_vars

\* the sales aggregator, clear_sales_cache and a disk that may refuse writes
InitC == NoSources /\ InitEngine /\ InitCacheRuns /\ InitClient /\ InitRequest
         /\ NoItem
NextC == Call \/ Page \/ CeilingReached \/ Tick \/ ClearSalesCache
SpecCache == InitC /\ [][NextC]_vars

\* the engine over a catalog of two kits
InitK == InitCatalogSources /\ InitEngine /\ NoOrders /\ InitClient /\ InitRequest
         /\ DiskOk /\ NoItem

\* the engine, a shop whose stock changes, and a caller that keeps a list
InitViewSources ==
    /\ shopStock  \in PartialFns(Skus, CatalogStock)
    /\ sheetKits  \in { << [sku |-> "K1", status |-> "Active"],
                            [sku |-> "K2", status |-> "Active"] >>,
                         << [sku |-> "K1", status |-> "Active"],
                            [sku |-> "K2", status |-> "Inactive"] >> }
    /\ sheetRows  \in SeqUpTo(CatalogRows, MaxComponents)
    /\ sheetRules = << >>
InitV == InitViewSources /\ InitEngine /\ NoOrders /\ InitClient /\ InitRequest
         /\ DiskOk /\ NoItem
NextV == LoadData \/ Calculate \/ KeepResults \/ StockChanges
SpecView == InitV /\ [][NextV]_vars

\* load_data and the sales aggregator over one shop
InitL == InitShop /\ InitEngine /\ InitClient /\ InitRequest /\ DiskOk /\ NoItem
NextL == LoadData \/ Call \/ Page \/ CeilingReached
SpecLoad == InitL /\ [][NextL]_vars

\* one product and the reading of its forecast figures
InitP == NoSources /\ InitEngine /\ NoOrders /\ InitClient /\ InitRequest /\ DiskOk
         /\ InitProduct
NextP == ReadForecast
SpecProduct == InitP /\ [][NextP]_vars
\* the engine reloading from sources that change
InitReload == InitReloadSources /\ InitEngine /\ NoOrders /\ InitClient /\ InitRequest
              /\ DiskOk /\ NoItem
NextReload == Reload \/ SheetEdited \/ StockChanges
SpecReload == InitReload /\ [][NextReload]_vars

\* the engine and two kits that differ in the criticality flags
InitCritical == InitCriticalSources /\ InitEngine /\ NoOrders /\ InitClient
                /\ InitRequest /\ DiskOk /\ NoItem
NextCritical == LoadData \/ CalculateNamed
SpecCritical == InitCritical /\ [][NextCritical]_vars

\* the aggregator against a source that answers some requests with 429
InitSweep == NoSources /\ InitEngine /\ InitClient /\ InitRequest /\ DiskOk /\ NoItem
             /\ shopOrders \in CacheHistories
             /\ sourceFilters \in BOOLEAN
NextSweep == Call \/ Page \/ CeilingReached \/ RateLimited
SpecSweep == InitSweep /\ [][NextSweep]_vars
\* the loop runs on as long as it can: each request is answered in the end
SpecSweepFair == SpecSweep /\ WF_vars(Page) /\ WF_vars(CeilingReached)

NextK == LoadData \/ CalculateNamed \/ ValidateDataConsistency
SpecCatalog == InitK /\ [][NextK]_vars

====
